---- MODULE Spec2Model ----
(***************************************************************************)
(* A model of openobserve-jaeger: the Jaeger-UI query layer in front of an *)
(* OpenObserve trace backend.                                              *)
(*                                                                         *)
(*   internal/transport/http/query_parser.go   parameter parsing, the      *)
(*                                              validator, the handlers    *)
(*   internal/jaeger_service/jaeger_service.go  FindTraces, GetTrace,      *)
(*                                              buildSQL, span assembly    *)
(*   internal/openobserve_service/search.go     the backend client         *)
(*                                                                         *)
(* Times are counted in ticks of five minutes since the Unix epoch,        *)
(* durations in nanoseconds.                                               *)
(***************************************************************************)
EXTENDS Integers, Sequences, FiniteSets, TLC

VARIABLES
    cfg,            \* config.Cfg.OpenObserve, read once at start-up
    now,            \* the wall clock (time.Now), in ticks
    op,             \* op[r]: which handler serves request r
    pc,             \* pc[r]: where request r stands
    params,         \* params[r]: the raw parameters of the request
    query,          \* query[r]: the parsed TraceQueryParameters / OOQuery
    calls,          \* calls[r]: the backend calls issued for r, in order
    hits,           \* hits[r]: what each returned backend call brought back
    traceIds,       \* traceIds[r]: the identifiers Phase 1 handed to Phase 2
    resp,           \* resp[r]: the JaegerStructuredResponse of r
    httpStatus,     \* httpStatus[r]: the status wrapResponse writes
    clientTimeout,  \* the timeout field of the one shared resty client
    clientWrites,   \* the writes to that client: who wrote, and whose calls
                    \* were in flight through the client at that moment
    sqlIn,          \* the arguments of a direct buildSQL application
    sqlOut,         \* its result
    ooSpan,         \* the flat record of a direct transOOSpanToDbModelSpan
    dbSpan          \* its result

vars == <<cfg, now, op, pc, params, query, calls, hits, traceIds, resp,
          httpStatus, clientTimeout, clientWrites, sqlIn, sqlOut, ooSpan, dbSpan>>

-----------------------------------------------------------------------------
(* Bounds of the model *)

MaxTime == 30          \* the latest time stamp a request names, in ticks
MaxRows == 2           \* the longest row set a backend call returns
MaxRequests == 2       \* the requests in flight together

(* Units *)

Hour == 12             \* time.Hour, in ticks of five minutes
FiveMinutes == 1       \* 5 * time.Minute
Microsecond == 1000    \* time.Microsecond, in nanoseconds
ZeroTime == -207118656 \* the zero time.Time (year 1), in ticks before the epoch

(* Program constants *)

defaultQueryLimit == 20
SearchTraceDefaultStream == "default"
SearchTraceListStream == "trace_list_index"
BackgroundSearchType == "reports"
UiSearchType == "ui"
searchTraceAPI == "/api/default/_search?type=traces"
searchMetadataAPI == "/api/default/_search?type=metadata"
TraceAPI == "TraceAPI"
MetadataAPI == "MetadataAPI"
StatusOK == 200
queryLookbackDuration == 1 * Hour

IsZero(t) == t = ZeroTime

-----------------------------------------------------------------------------
(* Small helpers on Go values *)

EmptyMap == [k \in {} |-> ""]

\* Writing every pair of b into a (for k, v := range b { a[k] = v }).
MapMerge(a, b) ==
    [k \in (DOMAIN a) \cup (DOMAIN b) |-> IF k \in DOMAIN b THEN b[k] ELSE a[k]]

MapPut(a, k, v) == MapMerge(a, [x \in {k} |-> v])

-----------------------------------------------------------------------------
(* query_parser.go: parsing *)

\* An integer parameter as it arrives: absent (""), a decimal number, or
\* text strconv.ParseInt rejects.
IntParam(kind, v) == [kind |-> kind, v |-> v]
Absent == IntParam("absent", 0)
Garbage == IntParam("garbage", 0)
Num(n) == IntParam("int", n)

\* time.ParseDuration on the duration strings the model sends.
DurationStrings == {"0s", "500ns", "1us", "2us", "-1us"}
ParseDurationValue(s) ==
    CASE s = "0s" -> 0
      [] s = "500ns" -> 500
      [] s = "1us" -> 1 * Microsecond
      [] s = "2us" -> 2 * Microsecond
      [] s = "-1us" -> 0 - Microsecond
      [] OTHER -> 0

\* parseDuration(r, paramName, parser, 0)
parseDuration(formValue, defaultDuration) ==
    IF formValue = "" THEN [err |-> FALSE, d |-> defaultDuration]
    ELSE IF formValue \in DurationStrings
         THEN [err |-> FALSE, d |-> ParseDurationValue(formValue)]
         ELSE [err |-> TRUE, d |-> 0]

\* parseTime(r, paramName, time.Microsecond); isStart is paramName == "start".
parseTime(p, isStart, tnow) ==
    IF p.kind = "absent"
    THEN [err |-> FALSE, t |-> IF isStart THEN tnow - queryLookbackDuration ELSE tnow]
    ELSE IF p.kind = "garbage" THEN [err |-> TRUE, t |-> ZeroTime]
    ELSE IF p.v < 0 THEN [err |-> TRUE, t |-> ZeroTime]
    ELSE [err |-> FALSE, t |-> p.v]

\* strings.Split(tag, ":") on the 'tag' strings the model sends, with the
\* value re-joined.
TagStrings == {"error:true", "error:false", "k:v", "k"}
SplitTag(s) ==
    CASE s = "error:true" -> [l |-> 2, k |-> "error", v |-> "true"]
      [] s = "error:false" -> [l |-> 2, k |-> "error", v |-> "false"]
      [] s = "k:v" -> [l |-> 2, k |-> "k", v |-> "v"]
      [] OTHER -> [l |-> 1, k |-> s, v |-> ""]

\* A 'tags' parameter: JSON that unmarshals to the map m, or does not.
JsonTags(ok, m) == [ok |-> ok, m |-> m]

RECURSIVE parseSimpleTags(_, _)
parseSimpleTags(simpleTags, retMe) ==
    IF simpleTags = <<>> THEN [err |-> FALSE, m |-> retMe]
    ELSE LET kv == SplitTag(Head(simpleTags))
         IN  IF kv.l > 1
             THEN parseSimpleTags(Tail(simpleTags), MapPut(retMe, kv.k, kv.v))
             ELSE [err |-> TRUE, m |-> EmptyMap]

RECURSIVE parseJsonTags(_, _)
parseJsonTags(jsonTags, retMe) ==
    IF jsonTags = <<>> THEN [err |-> FALSE, m |-> retMe]
    ELSE IF ~Head(jsonTags).ok THEN [err |-> TRUE, m |-> EmptyMap]
    ELSE parseJsonTags(Tail(jsonTags), MapMerge(retMe, Head(jsonTags).m))

parseTags(simpleTags, jsonTags) ==
    LET s == parseSimpleTags(simpleTags, EmptyMap)
    IN  IF s.err THEN s ELSE parseJsonTags(jsonTags, s.m)

\* The errors of the validator; "" is nil.
errServiceParameterRequired == "parameter 'service' is required"
errMaxDurationGreaterThanMin == "'maxDuration' should be greater than 'minDuration'"
errStartTimeGreaterThanStartTimeMax == "StartTime should not be greater than EndTime"
errTimeRange == "time range should not be greater than 1 Hour"

validateTraceQueryNoDuration(traceQuery) ==
    IF Len(traceQuery.traceIDs) = 0 /\ Len(traceQuery.ServiceName) = 0
    THEN errServiceParameterRequired
    ELSE IF /\ ~IsZero(traceQuery.StartTimeMin)
            /\ ~IsZero(traceQuery.StartTimeMax)
            /\ traceQuery.StartTimeMax - traceQuery.StartTimeMin <= 0
    THEN errStartTimeGreaterThanStartTimeMax
    ELSE IF /\ ~IsZero(traceQuery.StartTimeMin)
            /\ ~IsZero(traceQuery.StartTimeMax)
            /\ traceQuery.StartTimeMax - traceQuery.StartTimeMin > Hour + FiveMinutes
    THEN errTimeRange
    ELSE ""

validateTraceQueryNoOrder(traceQuery) ==
    IF Len(traceQuery.traceIDs) = 0 /\ Len(traceQuery.ServiceName) = 0
    THEN errServiceParameterRequired
    ELSE IF /\ traceQuery.DurationMin # 0
            /\ traceQuery.DurationMax # 0
            /\ traceQuery.DurationMax < traceQuery.DurationMin
    THEN errMaxDurationGreaterThanMin
    ELSE IF /\ ~IsZero(traceQuery.StartTimeMin)
            /\ ~IsZero(traceQuery.StartTimeMax)
            /\ traceQuery.StartTimeMax - traceQuery.StartTimeMin < 0
    THEN errStartTimeGreaterThanStartTimeMax
    ELSE IF /\ ~IsZero(traceQuery.StartTimeMin)
            /\ ~IsZero(traceQuery.StartTimeMax)
            /\ traceQuery.StartTimeMax - traceQuery.StartTimeMin > Hour + FiveMinutes
    THEN errTimeRange
    ELSE ""

validateTraceQuery(traceQuery) ==
    IF Len(traceQuery.traceIDs) = 0 /\ Len(traceQuery.ServiceName) = 0
    THEN errServiceParameterRequired
    ELSE IF /\ traceQuery.DurationMin # 0
            /\ traceQuery.DurationMax # 0
            /\ traceQuery.DurationMax < traceQuery.DurationMin
    THEN errMaxDurationGreaterThanMin
    ELSE IF /\ ~IsZero(traceQuery.StartTimeMin)
            /\ ~IsZero(traceQuery.StartTimeMax)
            /\ traceQuery.StartTimeMax - traceQuery.StartTimeMin <= 0
    THEN errStartTimeGreaterThanStartTimeMax
    ELSE IF /\ ~IsZero(traceQuery.StartTimeMin)
            /\ ~IsZero(traceQuery.StartTimeMax)
            /\ traceQuery.StartTimeMax - traceQuery.StartTimeMin > Hour + FiveMinutes
    THEN errTimeRange
    ELSE ""

\* The TraceQueryParameters of a request that failed to parse.
NoQuery ==
    [ServiceName |-> <<>>, OperationName |-> <<>>, Tags |-> EmptyMap,
     StartTimeMin |-> ZeroTime, StartTimeMax |-> ZeroTime,
     DurationMin |-> 0, DurationMax |-> 0, NumTraces |-> 0,
     Version |-> "", SkipWal |-> FALSE, SearchType |-> "", traceIDs |-> <<>>]

\* parseTraceQueryParams(ctx, r): the error ("" is nil) and the query.
parseTraceQueryParams(p, tnow) ==
    LET startTime == parseTime(p.start, TRUE, tnow)
        endTime == parseTime(p.end, FALSE, tnow)
        tags == parseTags(p.tag, p.tags)
        limit == IF p.limit.kind = "absent" THEN defaultQueryLimit ELSE p.limit.v
        minDuration == parseDuration(p.minDuration, 0)
        maxDuration == parseDuration(p.maxDuration, 0)
        traceQuery ==
            [ServiceName |-> p.service, OperationName |-> p.operation,
             Tags |-> tags.m,
             StartTimeMin |-> startTime.t, StartTimeMax |-> endTime.t,
             DurationMin |-> minDuration.d, DurationMax |-> maxDuration.d,
             NumTraces |-> limit, Version |-> p.version,
             SkipWal |-> FALSE, SearchType |-> "",
             traceIDs |-> p.pathParams]
    IN  IF startTime.err THEN [err |-> "unable to parse param 'start'", q |-> NoQuery]
        ELSE IF endTime.err THEN [err |-> "unable to parse param 'end'", q |-> NoQuery]
        ELSE IF tags.err THEN [err |-> "malformed 'tag' parameter", q |-> NoQuery]
        ELSE IF p.limit.kind = "garbage"
             THEN [err |-> "strconv.ParseInt", q |-> NoQuery]
        ELSE IF minDuration.err
             THEN [err |-> "unable to parse param 'minDuration'", q |-> NoQuery]
        ELSE IF maxDuration.err
             THEN [err |-> "unable to parse param 'maxDuration'", q |-> NoQuery]
        ELSE IF validateTraceQuery(traceQuery) # ""
             THEN [err |-> validateTraceQuery(traceQuery), q |-> NoQuery]
        ELSE [err |-> "", q |-> traceQuery]

-----------------------------------------------------------------------------
(* jaeger_service.go: the SQL builder *)

\* One fragment of the WHERE clause.  A column fragment has a column, an
\* operator and its arguments in order; the tag fragment holds the tag
\* equalities, which the code joins in the iteration order of a Go map.
Fragment(col, oper, args) == [col |-> col, op |-> oper, args |-> args, tags |-> {}]
TagFragment(tags) == [col |-> "", op |-> "AND", args |-> <<>>, tags |-> tags]
TagEq(k, v) == [k |-> k, v |-> v]

\* d.Microseconds()
Microseconds(d) == d \div Microsecond

\* The equalities of the loop over q.Tags.
tagConds(q) ==
    {TagEq(k, q.Tags[k]) : k \in (DOMAIN q.Tags) \ {"error"}}
    \cup (IF "error" \in DOMAIN q.Tags /\ q.Tags["error"] = "true"
          THEN {TagEq("span_status", "ERROR")} ELSE {})

buildSQLCond(q) ==
    (IF Len(q.ServiceName) = 1
     THEN <<Fragment("service_name", "=", q.ServiceName)>>
     ELSE IF Len(q.ServiceName) > 1
     THEN <<Fragment("service_name", "IN", q.ServiceName)>>
     ELSE <<>>)
    \o (IF Len(q.OperationName) > 0
        THEN <<Fragment("operation_name", "IN", q.OperationName)>> ELSE <<>>)
    \o (IF q.DurationMin > 0
        THEN <<Fragment("duration", ">=", <<ToString(Microseconds(q.DurationMin))>>)>>
        ELSE <<>>)
    \o (IF q.DurationMax > 0
        THEN <<Fragment("duration", "<=", <<ToString(Microseconds(q.DurationMax))>>)>>
        ELSE <<>>)
    \o (IF Cardinality(DOMAIN q.Tags) > 0 /\ tagConds(q) # {}
        THEN <<TagFragment(tagConds(q))>> ELSE <<>>)

\* The SQL text, by its clauses: SELECT select FROM from [WHERE where joined
\* by AND] tail [LIMIT limit].
SQL(select, from, where, tail, limit) ==
    [select |-> select, from |-> from, where |-> where, tail |-> tail,
     limit |-> limit]

buildSQLKeepStream(fileds, q, stream) ==
    LET full == \/ stream = ""
                \/ Cardinality(DOMAIN q.Tags) > 0
                \/ Len(q.OperationName) > 0
                \/ q.DurationMax > 0
                \/ q.DurationMin > 0
    IN  [sql |-> SQL(IF full THEN "trace_id, MIN(start_time) AS _timestamp" ELSE fileds,
                     stream,
                     buildSQLCond(q),
                     "GROUP BY trace_id ORDER BY _timestamp DESC",
                     IF q.NumTraces > 0 THEN <<q.NumTraces>> ELSE <<>>),
         stream_api |-> IF full THEN TraceAPI ELSE MetadataAPI]

\* buildSQL(ctx, fileds, q, stream): the SQL and the source selector.
buildSQL(fileds, q, stream) ==
    LET full == \/ stream = ""
                \/ Cardinality(DOMAIN q.Tags) > 0
                \/ Len(q.OperationName) > 0
                \/ q.DurationMax > 0
                \/ q.DurationMin > 0
    IN  [sql |-> SQL(IF full THEN "trace_id, MIN(start_time) AS _timestamp" ELSE fileds,
                     IF full THEN SearchTraceDefaultStream ELSE stream,
                     buildSQLCond(q),
                     "GROUP BY trace_id ORDER BY _timestamp DESC",
                     IF q.NumTraces > 0 THEN <<q.NumTraces>> ELSE <<>>),
         stream_api |-> IF full THEN TraceAPI ELSE MetadataAPI]

-----------------------------------------------------------------------------
(* search.go: the backend client *)

\* OOSearchQuery, flattened.
OOSearchQuery(start, end, sql, size, skipWal, searchType) ==
    [SqlMode |-> "full", StartTime |-> start, EndTime |-> end, Sql |-> sql,
     Size |-> size, SkipWal |-> skipWal, SearchType |-> searchType]

\* What Search(ctx, q, api) puts on the wire: the URL, the query string and
\* the body.
SearchRequest(q, api) ==
    [api |-> api,
     query |-> IF q.SearchType = BackgroundSearchType
               THEN "search_type=" \o BackgroundSearchType
               ELSE IF q.SearchType = "" THEN "search_type=" \o UiSearchType
               ELSE "",
     body |-> [q EXCEPT !.SearchType =
                  IF q.SearchType = "" THEN UiSearchType ELSE q.SearchType]]

\* What the backend does with a call: the transport fails (the context is
\* canceled, the connection breaks), or it answers with a status and, under
\* 200, the rows of "hits".
Outcome(sendErr, status, rows) == [sendErr |-> sendErr, status |-> status, hits |-> rows]

\* The return of Search: err is "" (nil), "plain" (the error of r.Send) or
\* "coded" (an *errors.Error carrying the backend's status).
SearchReturn(o) ==
    IF o.sendErr THEN [err |-> "plain", code |-> 0, hits |-> <<>>]
    ELSE IF o.status # StatusOK THEN [err |-> "coded", code |-> o.status, hits |-> <<>>]
    ELSE [err |-> "", code |-> 0, hits |-> o.hits]

-----------------------------------------------------------------------------
(* jaeger_service.go: responses *)

JaegerStructuredError(code, msg, traceID) == [code |-> code, msg |-> msg, traceID |-> traceID]

\* JaegerStructuredResponse; dataNil tells a nil Data (JSON null) from an
\* empty list.
JaegerStructuredResponse(data, dataNil, total, errors) ==
    [data |-> data, dataNil |-> dataNil, total |-> total, errors |-> errors]

StatusCode(j) == IF Len(j.errors) > 0 THEN j.errors[1].code ELSE StatusOK

NoResponse == JaegerStructuredResponse(<<>>, TRUE, 0, <<>>)

-----------------------------------------------------------------------------
(* jaeger_service.go: the span assembler *)

\* A flat record (map[string]interface{}) is a function from column names to
\* the values the backend sent, written as strings.
HasCol(row, c) == c \in DOMAIN row
\* cast.ToString(row[c]): a missing column reads as "".
ColString(row, c) == IF c \in DOMAIN row THEN row[c] ELSE ""

\* cast.ToInt64 / cast.ToInt / cast.ToUint64 of a value: its number, and 0 for
\* a missing value or one that is no number.
IntStrings ==
    [s \in {"0", "1", "2", "3", "4", "5", "9", "1500", "1000000000"} |->
        CASE s = "0" -> 0 [] s = "1" -> 1 [] s = "2" -> 2 [] s = "3" -> 3
          [] s = "4" -> 4 [] s = "5" -> 5 [] s = "9" -> 9 [] s = "1500" -> 1500
          [] s = "1000000000" -> 1000000000]
ToInt64(s) == IF s \in DOMAIN IntStrings THEN IntStrings[s] ELSE 0
ToUint64(n) == IF n < 0 THEN 0 ELSE n

\* time.Unix(ns/1e9, ns%1e9).UnixMicro() and .UnixMilli()
NanosPerMicro == 1000
NanosPerMilli == 1000000
UnixMicro(ns) == ns \div NanosPerMicro
UnixMilli(ns) == ns \div NanosPerMilli

\* DbModelProcessTagsRulesReg.MatchString(k): the rule is compiled from the
\* empty pattern, which matches every column name.
DbModelProcessTagsRulesReg(k) == k \in STRING

\* OOSpanFixedKey
OOSpanFixedKey ==
    [ServiceName |-> "service_name", StartTime |-> "start_time",
     EndTime |-> "end_time", Timestamp |-> "_timestamp", TraceID |-> "trace_id",
     SpanID |-> "span_id", Duration |-> "duration", Flags |-> "flags",
     OperationName |-> "operation_name", SpanKind |-> "span_kind",
     SpanStatus |-> "span_status", Error |-> "error",
     ReferenceParentSpanId |-> "reference_parent_span_id",
     ReferenceParentTraceId |-> "reference_parent_trace_id",
     ReferenceRefType |-> "reference_ref_type", Events |-> "events"]

\* trimSpanFixedKey: the record without the columns of the core fields.
trimSpanFixedKey(oo) ==
    LET core == {OOSpanFixedKey.ServiceName, OOSpanFixedKey.StartTime,
                 OOSpanFixedKey.EndTime, OOSpanFixedKey.Timestamp,
                 OOSpanFixedKey.TraceID, OOSpanFixedKey.SpanID,
                 OOSpanFixedKey.Duration, OOSpanFixedKey.Flags,
                 OOSpanFixedKey.OperationName}
    IN  [k \in (DOMAIN oo) \ core |-> oo[k]]

KeyValue(key, type, value) == [Key |-> key, Type |-> type, Value |-> value]

\* strings.ToUpper, on the reference types of the model.
ToUpper(s) ==
    CASE s = "childof" -> "CHILDOF"
      [] s = "follows_from" -> "FOLLOWS_FROM"
      [] s = "child_of" -> "CHILD_OF"
      [] s = "link" -> "LINK"
      [] OTHER -> s

\* collectOOReferences: the references of a record.
Reference(refType, traceID, spanID) ==
    [RefType |-> refType, TraceID |-> traceID, SpanID |-> spanID]

collectOOReferencesKeepType(oo) ==
    IF Len(ColString(oo, OOSpanFixedKey.ReferenceParentSpanId)) = 0 THEN <<>>
    ELSE <<Reference(ToUpper(ColString(oo, OOSpanFixedKey.ReferenceRefType)),
                     ColString(oo, OOSpanFixedKey.ReferenceParentTraceId),
                     ColString(oo, OOSpanFixedKey.ReferenceParentSpanId))>>

collectOOReferences(oo) ==
    IF Len(ColString(oo, OOSpanFixedKey.ReferenceParentSpanId)) = 0 THEN <<>>
    ELSE LET upper == ToUpper(ColString(oo, OOSpanFixedKey.ReferenceRefType))
             ReferenceRefType == IF upper = "CHILDOF" THEN "CHILD_OF"
                                 ELSE IF upper = "FOLLOWS_FROM" THEN "FOLLOWS_FROM"
                                 ELSE "CHILD_OF"
         IN  <<Reference(ReferenceRefType,
                         ColString(oo, OOSpanFixedKey.ReferenceParentTraceId),
                         ColString(oo, OOSpanFixedKey.ReferenceParentSpanId))>>

\* json.Unmarshal of the events column into evs, a slice made with one nil
\* element: an array replaces the slice, null leaves it as it was made, and
\* anything else is an error.  An event is a function from its field names.
NilEvent == [k \in {} |-> ""]
Event(ts, msg) == [k \in {"_timestamp", "msg"} |-> IF k = "msg" THEN msg ELSE ts]
EventStrings ==
    {"", "{", "null", "[]",
     "[{\"_timestamp\":1000000000,\"msg\":\"ok\"}]",
     "[{\"msg\":\"a\"},{\"_timestamp\":1500,\"msg\":\"b\"}]"}
Unmarshal(s) ==
    CASE s = "null" -> [err |-> FALSE, evs |-> <<NilEvent>>]
      [] s = "[]" -> [err |-> FALSE, evs |-> <<>>]
      [] s = "[{\"_timestamp\":1000000000,\"msg\":\"ok\"}]"
            -> [err |-> FALSE, evs |-> <<Event("1000000000", "ok")>>]
      [] s = "[{\"msg\":\"a\"},{\"_timestamp\":1500,\"msg\":\"b\"}]"
            -> [err |-> FALSE, evs |-> <<[k \in {"msg"} |-> "a"], Event("1500", "b")>>]
      [] OTHER -> [err |-> TRUE, evs |-> <<>>]

\* collectOOLogs: one log per event, its time in microseconds and every field
\* of the event but the timestamp.
Log(timestamp, fields) == [Timestamp |-> timestamp, Fields |-> fields]

LogOfEventMillis(v) ==
    Log(ToUint64(UnixMilli(ToInt64(ColString(v, OOSpanFixedKey.Timestamp)))),
        {KeyValue(k, "string", v[k]) : k \in (DOMAIN v) \ {OOSpanFixedKey.Timestamp}})

LogOfEvent(v) ==
    Log(ToUint64(UnixMicro(ToInt64(ColString(v, OOSpanFixedKey.Timestamp)))),
        {KeyValue(k, "string", v[k]) : k \in (DOMAIN v) \ {OOSpanFixedKey.Timestamp}})

collectOOLogs(oo) ==
    IF ~HasCol(oo, OOSpanFixedKey.Events) THEN <<>>
    ELSE LET u == Unmarshal(ColString(oo, OOSpanFixedKey.Events))
         IN  IF u.err THEN <<>>
             ELSE [i \in 1..Len(u.evs) |-> LogOfEvent(u.evs[i])]

\* trace.SpanKind(kind), as collectOOTags names it.
SpanKindName(kind) ==
    CASE kind = 0 -> "unspecified"
      [] kind = 1 -> "internal"
      [] kind = 2 -> "server"
      [] kind = 3 -> "client"
      [] kind = 4 -> "producer"
      [] kind = 5 -> "consumer"
      [] OTHER -> ""

\* collectOOTags: what one column adds to the span tags.
TagsOfColumn(k, v) ==
    IF k = OOSpanFixedKey.SpanKind
    THEN {KeyValue("span.kind", "string", SpanKindName(ToInt64(v)))}
    ELSE IF k = OOSpanFixedKey.SpanStatus
    THEN {KeyValue("otel.status_code", "string", v)}
         \cup (IF v = "ERROR" THEN {KeyValue("error", "bool", "true")} ELSE {})
    ELSE IF k = OOSpanFixedKey.Events THEN {}
    ELSE IF ~DbModelProcessTagsRulesReg(k) THEN {KeyValue(k, "string", v)}
    ELSE {}

\* collectOOTags: the span tags, in the iteration order of the Go map.
collectOOTags(oo) == UNION {TagsOfColumn(k, oo[k]) : k \in DOMAIN oo}

\* collectOOProcessTags: the process tags.
collectOOProcessTags(oo) ==
    {KeyValue(k, "string", oo[k]) : k \in {c \in DOMAIN oo : DbModelProcessTagsRulesReg(c)}}

\* transOOSpanToDbModelSpan: the dbmodel.Span of a flat record.
transOOSpanToDbModelSpan(oo) ==
    LET startTime == ToInt64(ColString(oo, OOSpanFixedKey.StartTime))
        newoo == trimSpanFixedKey(oo)
    IN  [TraceID |-> ColString(oo, OOSpanFixedKey.TraceID),
         SpanID |-> ColString(oo, OOSpanFixedKey.SpanID),
         OperationName |-> ColString(oo, OOSpanFixedKey.OperationName),
         Process |-> [ServiceName |-> ColString(oo, OOSpanFixedKey.ServiceName),
                      Tags |-> collectOOProcessTags(newoo)],
         Flags |-> ToUint64(ToInt64(ColString(oo, OOSpanFixedKey.Flags))),
         ParentSpanID |-> ColString(oo, OOSpanFixedKey.ReferenceParentSpanId),
         StartTime |-> ToUint64(UnixMicro(startTime)),
         StartTimeMillis |-> ToUint64(UnixMilli(startTime)),
         Duration |-> ToUint64(ToInt64(ColString(oo, OOSpanFixedKey.Duration))),
         Logs |-> collectOOLogs(newoo),
         Tags |-> collectOOTags(newoo),
         References |-> collectOOReferences(newoo)]

\* spanConverter.SpanToDomain: the conversion of a dbmodel.Span fails on a
\* malformed fixed-key field, here a span id that is empty or no hexadecimal
\* number.
MalformedSpanIDs == {"", "zz"}
SpanToDomainFails(jsonSpan) == jsonSpan.SpanID \in MalformedSpanIDs

\* transOOToJaegerModelTrace: the spans of the rows, in their order, without
\* the rows whose conversion fails; it never returns an error.
transOOToJaegerModelTraceAllOrNothing(rows) ==
    LET spans == [i \in 1..Len(rows) |-> transOOSpanToDbModelSpan(rows[i])]
    IN  IF \E i \in 1..Len(spans) : SpanToDomainFails(spans[i]) THEN <<>>
        ELSE spans

transOOToJaegerModelTrace(rows) ==
    SelectSeq([i \in 1..Len(rows) |-> transOOSpanToDbModelSpan(rows[i])],
              LAMBDA span : ~SpanToDomainFails(span))

-----------------------------------------------------------------------------
(* jaeger_service.go: the two-phase retriever *)

notFoundError(traceID) == JaegerStructuredError(404, "trace not found", traceID)

\* findTracesIds, up to the call: the search query and the API it goes to.
findTracesIdsQuery(q) ==
    LET b == buildSQL("trace_id, MIN(_timestamp) AS _timestamp", q, SearchTraceListStream)
        qq == OOSearchQuery(q.StartTimeMin, q.StartTimeMax, b.sql, 0,
                            q.Version = "v3",
                            IF q.Version = "v3" \/ q.Version = "v4"
                            THEN BackgroundSearchType ELSE "")
    IN  SearchRequest(qq, IF b.stream_api = TraceAPI
                          THEN searchTraceAPI ELSE searchMetadataAPI)

\* The loop over ooresp.Hits of findTracesIds.
RECURSIVE collectTraceIds(_)
collectTraceIds(rows) ==
    IF rows = <<>> THEN <<>>
    ELSE (IF HasCol(Head(rows), "trace_id")
          THEN <<ColString(Head(rows), "trace_id")>> ELSE <<>>)
         \o collectTraceIds(Tail(rows))

\* findTracesIds, from the return of the call: (traceid, structErrors).
findTracesIdsReturn(res) ==
    IF res.err = "coded"
    THEN [ids |-> <<>>, errs |-> <<JaegerStructuredError(res.code, "status", "")>>]
    ELSE IF res.err = "plain"
    THEN [ids |-> <<>>, errs |-> <<JaegerStructuredError(500, "send", "")>>]
    ELSE IF Len(res.hits) = 0
    THEN [ids |-> <<>>, errs |-> <<notFoundError("")>>]
    ELSE [ids |-> collectTraceIds(res.hits), errs |-> <<>>]

FindTracesErrorsSurfaced(structErrors) ==
    JaegerStructuredResponse(<<>>, FALSE, 0, structErrors)

\* FindTraces, lines 245-253 and 269-276: the response when a phase returned
\* errors.
FindTracesErrors(structErrors) ==
    IF structErrors[1].code = 404
    THEN JaegerStructuredResponse(<<>>, FALSE, 0, <<>>)
    ELSE JaegerStructuredResponse(<<>>, FALSE, 0, structErrors)

\* FindTraces, lines 258-264: the parameters of Phase 2.
FindTracesSpanQuery(q, spanSize) ==
    [NoQuery EXCEPT !.StartTimeMin = q.StartTimeMin,
                    !.StartTimeMax = q.StartTimeMax,
                    !.NumTraces = spanSize,
                    !.SearchType = UiSearchType]

traceIdsSQL(traceids) ==
    SQL("*", SearchTraceDefaultStream, <<Fragment("trace_id", "IN", traceids)>>,
        "ORDER BY start_time DESC", <<>>)

\* searchTracesByIds, up to the call.
searchTracesByIdsQuery(q, sql) ==
    SearchRequest(OOSearchQuery(q.StartTimeMin, q.StartTimeMax, sql, q.NumTraces,
                                q.SkipWal, q.SearchType),
                  searchTraceAPI)

findTracesByIdsAlways(q, traceids) ==
    <<searchTracesByIdsQuery(q, traceIdsSQL(traceids))>>

findTracesByIdsPerTrace(q, traceids) ==
    [i \in 1..Len(traceids) |->
        searchTracesByIdsQuery(q, traceIdsSQL(<<traceids[i]>>))]

\* findTracesByIds: the backend calls it issues for traceids.
findTracesByIds(q, traceids) ==
    IF Len(traceids) <= 0 THEN <<>>
    ELSE <<searchTracesByIdsQuery(q, traceIdsSQL(traceids))>>

RowsOfAnyTrace(rows, id) == SelectSeq(rows, LAMBDA row : ColString(row, "trace_id") # "")

\* The rows of one trace, in their order in rows.
RowsOf(rows, id) == SelectSeq(rows, LAMBDA row : ColString(row, "trace_id") = id)

\* The keys of splitOOResp.
GroupIds(rows) ==
    {ColString(rows[i], "trace_id") : i \in 1..Len(rows)} \ {""}

\* transOOToJaegerUI(ctx, oo, traceStrID): the UI trace and the error, if
\* the adjusters failed.  The trace takes its identifier from its first span.
transOOToJaegerUI(rows, traceStrID, adjustFails) ==
    LET spans == transOOToJaegerModelTrace(rows)
        uiTraceID == IF Len(spans) > 0 THEN spans[1].TraceID ELSE ""
    IN  [trace |-> [traceID |-> uiTraceID, spans |-> spans],
         err |-> IF adjustFails
                 THEN <<JaegerStructuredError(0, "adjust", uiTraceID)>> ELSE <<>>]

\* The loop over splitOOResp of searchTracesByIds, in the iteration order the
\* Go map gives this time.
RECURSIVE buildTraces(_, _, _)
buildTraces(rows, order, failing) ==
    IF order = <<>> THEN [res |-> <<>>, errs |-> <<>>]
    ELSE LET t == transOOToJaegerUI(RowsOf(rows, Head(order)), Head(order),
                                    Head(order) \in failing)
             rest == buildTraces(rows, Tail(order), failing)
         IN  [res |-> <<t.trace>> \o rest.res, errs |-> t.err \o rest.errs]

\* searchTracesByIds, from the return of the call: (res, structErrors).
searchTracesByIdsReturn(res, order, failing) ==
    IF res.err # ""
    THEN [res |-> <<>>, nil |-> TRUE, errs |-> <<JaegerStructuredError(500, "send", "")>>]
    ELSE IF Len(res.hits) = 0
    THEN [res |-> <<>>, nil |-> TRUE, errs |-> <<notFoundError("")>>]
    ELSE LET b == buildTraces(res.hits, order, failing)
         IN  [res |-> b.res, nil |-> FALSE, errs |-> b.errs]

FindTracesDoneKeepsData(uiTraces, structErrors) ==
    JaegerStructuredResponse(uiTraces.res, uiTraces.nil, Len(uiTraces.res), structErrors)

\* FindTraces, lines 269-281.
FindTracesDone(uiTraces, structErrors) ==
    IF Len(structErrors) > 0 THEN FindTracesErrors(structErrors)
    ELSE JaegerStructuredResponse(uiTraces.res, uiTraces.nil, Len(uiTraces.res), <<>>)

-----------------------------------------------------------------------------
(* query_parser.go and jaeger_service.go: fetch-by-identifier *)

\* A start_time / end_time parameter: an integer counted in seconds ("s") or
\* in microseconds ("us"), naming the tick t.
UnixParam(kind, unit, t) == [kind |-> kind, unit |-> unit, t |-> t]
NoUnixParam == UnixParam("absent", "s", 0)

SixteenDigitTicks == 3333334   \* 10^15 microseconds, the first 16-digit count, in ticks
TicksPerMicroAsSeconds == 1000000

\* len(fmt.Sprintf("%d", n)) < 16, for the count n the parameter carries.
FewerThan16Digits(u) == u.unit = "s" \/ u.t < SixteenDigitTicks

\* valideRequest, lines 364-378: the time.Time of one bound.
unixParamTime(u) ==
    IF u.kind = "absent" \/ u.t <= 0 THEN ZeroTime
    ELSE IF FewerThan16Digits(u)
         THEN (IF u.unit = "s" THEN u.t ELSE u.t * TicksPerMicroAsSeconds)
         ELSE u.t

NoOOQuery ==
    [TraceID |-> "", ServiceName |-> "", StartTime |-> ZeroTime, EndTime |-> ZeroTime,
     SearchType |-> "", traceIDs |-> <<>>]

\* valideRequest(ctx): the error ("" is nil) and the OOQuery.
valideRequest(p) ==
    IF Len(p.id) > 32 THEN [err |-> "TraceID cannot be longer than 32 hex characters", q |-> NoOOQuery]
    ELSE IF p.start_time.kind = "garbage" \/ p.end_time.kind = "garbage"
    THEN [err |-> "start_time or end_time is not correct", q |-> NoOOQuery]
    ELSE [err |-> "",
          q |-> [TraceID |-> p.id,
                 ServiceName |-> p.servicename,
                 StartTime |-> unixParamTime(p.start_time),
                 EndTime |-> unixParamTime(p.end_time),
                 SearchType |-> IF p.version = "report" THEN BackgroundSearchType ELSE "",
                 traceIDs |-> <<>>]]

\* GetTrace, up to the call.
GetTraceQuery(q, tnow, detailRange) ==
    LET sql == SQL("*", SearchTraceDefaultStream,
                   <<Fragment("trace_id", "=", <<q.TraceID>>)>>,
                   "ORDER BY start_time", <<>>)
        both == IsZero(q.StartTime) /\ IsZero(q.EndTime)
    IN  SearchRequest(
            OOSearchQuery(IF both THEN tnow - Hour * detailRange ELSE q.StartTime,
                          IF both THEN tnow ELSE q.EndTime,
                          sql, -1, FALSE, ""),
            searchTraceAPI)

GetTraceNotFoundNoId(traceID) == JaegerStructuredError(404, "trace not found", "")

\* GetTrace, lines 540-544: the error of a fetch that found no row.
GetTraceNotFound(traceID) == JaegerStructuredError(404, "trace not found", traceID)

\* GetTrace, from the return of the call.
GetTraceReturn(res, traceID, adjustFails) ==
    IF res.err # ""
    THEN JaegerStructuredResponse(<<>>, TRUE, 0,
                                  <<JaegerStructuredError(500, "send", traceID)>>)
    ELSE IF Len(res.hits) = 0
    THEN JaegerStructuredResponse(<<>>, TRUE, 0, <<GetTraceNotFound(traceID)>>)
    ELSE LET t == transOOToJaegerUI(res.hits, traceID, adjustFails)
         IN  JaegerStructuredResponse(<<t.trace>>, FALSE, 0, t.err)

-----------------------------------------------------------------------------
(* search.go and jaeger_service.go: the service and operation lists *)

\* The hours the two list queries look back.
MetadataLookbackHours == 168

\* OpenObserveService.GetService, up to the call.
GetServiceQuery(tnow, size) ==
    SearchRequest(
        OOSearchQuery(tnow - Hour * MetadataLookbackHours, tnow,
                      SQL("service_name", "distinct_values_traces_default", <<>>,
                          "GROUP BY service_name", <<>>),
                      size, FALSE, ""),
        searchMetadataAPI)

\* OpenObserveService.GetServiceOperation, up to the call.
GetServiceOperationQuery(service_name, search_type, tnow, size) ==
    SearchRequest(
        OOSearchQuery(tnow - Hour * MetadataLookbackHours, tnow,
                      SQL("operation_name", "distinct_values_traces_default",
                          <<Fragment("service_name", "=", <<service_name>>)>>,
                          "GROUP BY operation_name", <<>>),
                      size, FALSE, search_type),
        searchMetadataAPI)

\* ooFieldValueApiToJaegerRespData(data, key): the values of the column key, in
\* the order of the rows, and none when the backend's total is not positive.
RECURSIVE FieldValues(_, _)
FieldValues(rows, key) ==
    IF rows = <<>> THEN <<>>
    ELSE (IF HasCol(Head(rows), key) THEN <<Head(rows)[key]>> ELSE <<>>)
         \o FieldValues(Tail(rows), key)

ooFieldValueApiToJaegerRespData(rows, total, key) ==
    IF total <= 0 THEN <<>> ELSE FieldValues(rows, key)

\* getService and GetOperations, from the return of the call: an error of the
\* backend client keeps the code it carries, any other error is a 500.
MetadataError(res) ==
    IF res.err = "coded"
    THEN JaegerStructuredResponse(<<>>, TRUE, 0,
                                  <<JaegerStructuredError(res.code, "status", "")>>)
    ELSE JaegerStructuredResponse(<<>>, TRUE, 0,
                                  <<JaegerStructuredError(500, "send", "")>>)

MetadataReturn(res, total, key) ==
    IF res.err # "" THEN MetadataError(res)
    ELSE LET values == ooFieldValueApiToJaegerRespData(res.hits, total, key)
         IN  JaegerStructuredResponse(values, FALSE, Len(values), <<>>)

-----------------------------------------------------------------------------
(* The requests, the backend's answers and the configurations of the model *)

Reqs == 1..MaxRequests

TraceIDs == {"t1", "t2"}

\* The rows the backend returns: with a trace id, with an empty one, with none.
RowValues == {[trace_id |-> id, span_id |-> "s1"] : id \in TraceIDs \cup {""}} \cup {EmptyMap}
RowSets(n) == UNION {[1..k -> RowValues] : k \in 0..n}

BackendStatuses == {404, 500}

Outcomes(rowSets) ==
    {Outcome(TRUE, 0, <<>>)}
    \cup {Outcome(FALSE, st, <<>>) : st \in BackendStatuses}
    \cup {Outcome(FALSE, StatusOK, rows) : rows \in rowSets}

AllOutcomes == Outcomes(RowSets(MaxRows))
FewOutcomes == Outcomes({<<>>, <<[trace_id |-> "t1", span_id |-> "s1"]>>})

\* The orders in which a Go map with the keys S is iterated.
Orders(S) ==
    {f \in [1..Cardinality(S) -> S] : \A i, j \in 1..Cardinality(S) : i # j => f[i] # f[j]}

TraceParams(service, operation, start, end, tag, tags, limit, minD, maxD, version) ==
    [service |-> service, operation |-> operation, start |-> start, end |-> end,
     tag |-> tag, tags |-> tags, limit |-> limit,
     minDuration |-> minD, maxDuration |-> maxD, version |-> version,
     pathParams |-> <<>>]

NoParams == TraceParams(<<>>, <<>>, Absent, Absent, <<>>, <<>>, Absent, "", "", "")

\* GET /api/traces requests of a few shapes, for runs against every answer
\* of the backend.
PipelineParams ==
    {TraceParams(sv, <<>>, st, en, <<>>, <<>>, Absent, mn, mx, ver) :
        sv \in {<<>>, <<"checkout">>},
        st \in {Absent, Num(0)},
        en \in {Absent, Num(0), Num(Hour + FiveMinutes), Num(MaxTime)},
        mn \in {"", "2us"}, mx \in {"", "1us"},
        ver \in {"", "v3"}}

\* GET /api/traces requests of every shape.
QueryParams ==
    {TraceParams(sv, <<>>, st, en, tg, <<>>, lm, mn, mx, "") :
        sv \in {<<>>, <<"checkout">>, <<"checkout", "cart">>},
        st \in {Absent, Garbage, Num(-1), Num(0), Num(1)},
        en \in {Absent, Garbage} \cup {Num(t) : t \in 0..MaxTime},
        tg \in {<<>>, <<"k">>},
        lm \in {Absent, Garbage},
        mn \in {"", "x"} \cup DurationStrings,
        mx \in {"", "x"} \cup DurationStrings}

ConcParams ==
    {TraceParams(<<"checkout">>, <<>>, Absent, en, <<>>, <<>>, Absent, "", "", "") :
        en \in {Absent, Num(2 * Hour + FiveMinutes)}}

OOParams(id, start, end, version) ==
    [id |-> id, servicename |-> "", start_time |-> start, end_time |-> end,
     version |-> version]

LongTraceID == "0123456789abcdef0123456789abcdef0"

\* GET /api/traces/:id requests.
GetTraceParams ==
    {OOParams(id, st, en, "") :
        id \in TraceIDs \cup {LongTraceID},
        st \in {NoUnixParam, UnixParam("garbage", "s", 0), UnixParam("int", "s", Hour)},
        en \in {NoUnixParam, UnixParam("int", "s", 2 * Hour)}}

ConcTraceParams == {OOParams("t1", NoUnixParam, NoUnixParam, "")}

\* GET /api/services and GET /api/services/:servicename/operations requests.
ServiceParams ==
    {OOParams("", st, NoUnixParam, ver) :
        st \in {NoUnixParam, UnixParam("garbage", "s", 0)}, ver \in {"", "report"}}
OperationParams ==
    {[p EXCEPT !.servicename = "checkout"] : p \in ServiceParams}

\* The answers of the backend to the list queries: the rows and the total.
MetadataRows == {[service_name |-> "checkout"], [operation_name |-> "GET"], EmptyMap}
MetadataOutcomes ==
    {[sendErr |-> o.sendErr, status |-> o.status, hits |-> o.hits, total |-> t] :
        o \in Outcomes(UNION {[1..k -> MetadataRows] : k \in 0..MaxRows}),
        t \in {0, MaxRows}}

Config(detail, queryui, spanSize) ==
    [DefaultTraceDetailSearchRange |-> detail,
     DefaultQueryUIMaxSearchRange |-> queryui,
     DefaultServiceNameSize |-> 1000,
     DefaultOperationNameSize |-> 10000,
     DefaultSpanSize |-> spanSize]

-----------------------------------------------------------------------------
(* The state machine *)

Call(phase, req) == [phase |-> phase, req |-> req, inflight |-> TRUE]

InFlight(r) == \E i \in 1..Len(calls[r]) : calls[r][i].inflight

Returned(cs) == [i \in 1..Len(cs) |-> [cs[i] EXCEPT !.inflight = FALSE]]

\* Search, line 205: oo.client.SetTimeout on the client every request shares;
\* reqOpt.TimeOut is never set, so the value written is 0.
SetTimeout(r) ==
    /\ clientTimeout' = 0
    /\ clientWrites' = clientWrites
           \cup {[by |-> r, with |-> {x \in Reqs \ {r} : InFlight(x)}]}

Respond(r, j) ==
    /\ resp' = [resp EXCEPT ![r] = j]
    /\ httpStatus' = [httpStatus EXCEPT ![r] = StatusCode(j)]
    /\ pc' = [pc EXCEPT ![r] = "done"]

\* GET /api/traces: SearchTraces, and FindTraces up to the Phase 1 call.
SearchTraces(r, P) ==
    /\ pc[r] = "idle"
    /\ \E p \in P :
        LET parsed == parseTraceQueryParams(p, now)
        IN  /\ op' = [op EXCEPT ![r] = "SearchTraces"]
            /\ params' = [params EXCEPT ![r] = p]
            /\ IF parsed.err # ""
               THEN /\ Respond(r, JaegerStructuredResponse(<<>>, FALSE, 0,
                                   <<JaegerStructuredError(405, parsed.err, "")>>))
                    /\ UNCHANGED <<query, calls, clientTimeout, clientWrites>>
               ELSE /\ query' = [query EXCEPT ![r] = parsed.q]
                    /\ calls' = [calls EXCEPT ![r] =
                                    <<Call("ids", findTracesIdsQuery(parsed.q))>>]
                    /\ SetTimeout(r)
                    /\ pc' = [pc EXCEPT ![r] = "findTracesIds"]
                    /\ UNCHANGED <<resp, httpStatus>>
    /\ UNCHANGED <<cfg, now, hits, traceIds, sqlIn, sqlOut, ooSpan, dbSpan>>

\* The Phase 1 call returns: the rest of findTracesIds, and FindTraces up to
\* the Phase 2 call.
FindTracesIds(r, O) ==
    /\ pc[r] = "findTracesIds"
    /\ \E o \in O :
        LET ret == findTracesIdsReturn(SearchReturn(o))
            qq == FindTracesSpanQuery(query[r], cfg.DefaultSpanSize)
            reqs == findTracesByIds(qq, ret.ids)
        IN  /\ hits' = [hits EXCEPT ![r] = Append(@, o)]
            /\ IF Len(ret.errs) > 0
               THEN /\ Respond(r, FindTracesErrors(ret.errs))
                    /\ calls' = [calls EXCEPT ![r] = Returned(@)]
                    /\ UNCHANGED <<traceIds, clientTimeout, clientWrites>>
               ELSE IF reqs = <<>>
               THEN /\ Respond(r, FindTracesDone([res |-> <<>>, nil |-> TRUE], <<>>))
                    /\ calls' = [calls EXCEPT ![r] = Returned(@)]
                    /\ traceIds' = [traceIds EXCEPT ![r] = ret.ids]
                    /\ UNCHANGED <<clientTimeout, clientWrites>>
               ELSE /\ calls' = [calls EXCEPT ![r] =
                                    Returned(@) \o [i \in 1..Len(reqs) |-> Call("spans", reqs[i])]]
                    /\ traceIds' = [traceIds EXCEPT ![r] = ret.ids]
                    /\ SetTimeout(r)
                    /\ pc' = [pc EXCEPT ![r] = "searchTracesByIds"]
                    /\ UNCHANGED <<resp, httpStatus>>
    /\ UNCHANGED <<cfg, now, op, params, query, sqlIn, sqlOut, ooSpan, dbSpan>>

\* The Phase 2 call returns: the rest of searchTracesByIds and of FindTraces.
SearchTracesByIds(r, O) ==
    /\ pc[r] = "searchTracesByIds"
    /\ \E o \in O :
        \E order \in Orders(GroupIds(o.hits)), failing \in SUBSET GroupIds(o.hits) :
            LET ret == searchTracesByIdsReturn(SearchReturn(o), order, failing)
            IN  /\ hits' = [hits EXCEPT ![r] = Append(@, o)]
                /\ calls' = [calls EXCEPT ![r] = Returned(@)]
                /\ Respond(r, FindTracesDone(ret, ret.errs))
    /\ UNCHANGED <<cfg, now, op, params, query, traceIds, clientTimeout, clientWrites,
                   sqlIn, sqlOut, ooSpan, dbSpan>>

\* GET /api/traces/:id: the handler GetTrace, and the service's GetTrace up to
\* its call.  An error of valideRequest leaves the handler as a 500 without a
\* structured response.
GetTrace(r, P) ==
    /\ pc[r] = "idle"
    /\ \E p \in P :
        LET v == valideRequest(p)
        IN  /\ op' = [op EXCEPT ![r] = "GetTrace"]
            /\ params' = [params EXCEPT ![r] = p]
            /\ IF v.err # ""
               THEN /\ httpStatus' = [httpStatus EXCEPT ![r] = 500]
                    /\ pc' = [pc EXCEPT ![r] = "done"]
                    /\ UNCHANGED <<query, calls, clientTimeout, clientWrites>>
               ELSE /\ query' = [query EXCEPT ![r] = v.q]
                    /\ calls' = [calls EXCEPT ![r] =
                           <<Call("trace", GetTraceQuery(v.q, now,
                                               cfg.DefaultTraceDetailSearchRange))>>]
                    /\ SetTimeout(r)
                    /\ pc' = [pc EXCEPT ![r] = "GetTrace"]
                    /\ UNCHANGED httpStatus
    /\ UNCHANGED <<cfg, now, hits, traceIds, resp, sqlIn, sqlOut, ooSpan, dbSpan>>

\* The call of GetTrace returns.
GetTraceDone(r, O) ==
    /\ pc[r] = "GetTrace"
    /\ \E o \in O, adjustFails \in BOOLEAN :
        /\ hits' = [hits EXCEPT ![r] = Append(@, o)]
        /\ calls' = [calls EXCEPT ![r] = Returned(@)]
        /\ Respond(r, GetTraceReturn(SearchReturn(o), query[r].TraceID, adjustFails))
    /\ UNCHANGED <<cfg, now, op, params, query, traceIds, clientTimeout, clientWrites,
                   sqlIn, sqlOut, ooSpan, dbSpan>>

\* GET /api/services: the handler GetService, and getService up to its call.
GetService(r, P) ==
    /\ pc[r] = "idle"
    /\ \E p \in P :
        LET v == valideRequest(p)
        IN  /\ op' = [op EXCEPT ![r] = "GetService"]
            /\ params' = [params EXCEPT ![r] = p]
            /\ IF v.err # ""
               THEN /\ httpStatus' = [httpStatus EXCEPT ![r] = 500]
                    /\ pc' = [pc EXCEPT ![r] = "done"]
                    /\ UNCHANGED <<query, calls, clientTimeout, clientWrites>>
               ELSE /\ query' = [query EXCEPT ![r] = v.q]
                    /\ calls' = [calls EXCEPT ![r] =
                           <<Call("services", GetServiceQuery(now, cfg.DefaultServiceNameSize))>>]
                    /\ SetTimeout(r)
                    /\ pc' = [pc EXCEPT ![r] = "GetService"]
                    /\ UNCHANGED httpStatus
    /\ UNCHANGED <<cfg, now, hits, traceIds, resp, sqlIn, sqlOut, ooSpan, dbSpan>>

\* The call of getService returns.
GetServiceDone(r, O) ==
    /\ pc[r] = "GetService"
    /\ \E o \in O :
        /\ hits' = [hits EXCEPT ![r] = Append(@, o)]
        /\ calls' = [calls EXCEPT ![r] = Returned(@)]
        /\ Respond(r, MetadataReturn(SearchReturn(o), o.total, OOSpanFixedKey.ServiceName))
    /\ UNCHANGED <<cfg, now, op, params, query, traceIds, clientTimeout, clientWrites,
                   sqlIn, sqlOut, ooSpan, dbSpan>>

\* GET /api/services/:servicename/operations: the handler GetOperations, and
\* the service's GetOperations up to its call.
GetOperations(r, P) ==
    /\ pc[r] = "idle"
    /\ \E p \in P :
        LET v == valideRequest(p)
        IN  /\ op' = [op EXCEPT ![r] = "GetOperations"]
            /\ params' = [params EXCEPT ![r] = p]
            /\ IF v.err # ""
               THEN /\ httpStatus' = [httpStatus EXCEPT ![r] = 500]
                    /\ pc' = [pc EXCEPT ![r] = "done"]
                    /\ UNCHANGED <<query, calls, clientTimeout, clientWrites>>
               ELSE /\ query' = [query EXCEPT ![r] = v.q]
                    /\ calls' = [calls EXCEPT ![r] =
                           <<Call("operations",
                                  GetServiceOperationQuery(v.q.ServiceName, v.q.SearchType, now,
                                                           cfg.DefaultOperationNameSize))>>]
                    /\ SetTimeout(r)
                    /\ pc' = [pc EXCEPT ![r] = "GetOperations"]
                    /\ UNCHANGED httpStatus
    /\ UNCHANGED <<cfg, now, hits, traceIds, resp, sqlIn, sqlOut, ooSpan, dbSpan>>

\* The call of GetOperations returns.
GetOperationsDone(r, O) ==
    /\ pc[r] = "GetOperations"
    /\ \E o \in O :
        /\ hits' = [hits EXCEPT ![r] = Append(@, o)]
        /\ calls' = [calls EXCEPT ![r] = Returned(@)]
        /\ Respond(r, MetadataReturn(SearchReturn(o), o.total, OOSpanFixedKey.OperationName))
    /\ UNCHANGED <<cfg, now, op, params, query, traceIds, clientTimeout, clientWrites,
                   sqlIn, sqlOut, ooSpan, dbSpan>>

\* buildSQL applied to the arguments drawn at the start.
BuildSQL ==
    /\ ~sqlOut.done
    /\ sqlOut' = [done |-> TRUE, out |-> buildSQL(sqlIn.fileds, sqlIn.q, sqlIn.stream)]
    /\ UNCHANGED <<cfg, now, op, pc, params, query, calls, hits, traceIds, resp,
                   httpStatus, clientTimeout, clientWrites, sqlIn,
                   ooSpan, dbSpan>>

NoSQL == SQL("", "", <<>>, "", <<>>)
NoSQLIn == [fileds |-> "", q |-> NoQuery, stream |-> ""]

Start ==
    /\ now = 2 * Hour
    /\ op = [r \in Reqs |-> ""]
    /\ pc = [r \in Reqs |-> "idle"]
    /\ params = [r \in Reqs |-> NoParams]
    /\ query = [r \in Reqs |-> NoQuery]
    /\ calls = [r \in Reqs |-> <<>>]
    /\ hits = [r \in Reqs |-> <<>>]
    /\ traceIds = [r \in Reqs |-> <<>>]
    /\ resp = [r \in Reqs |-> NoResponse]
    /\ httpStatus = [r \in Reqs |-> 0]
    /\ clientTimeout = 0
    /\ clientWrites = {}
    /\ sqlOut = [done |-> FALSE, out |-> [sql |-> NoSQL, stream_api |-> ""]]
    /\ dbSpan = [done |-> FALSE, span |-> transOOSpanToDbModelSpan(EmptyMap)]

\* One request at a time, of a few shapes, against every answer of the backend.
Init ==
    /\ Start
    /\ cfg = Config(24, 24, 10000)
    /\ sqlIn = NoSQLIn
    /\ ooSpan = EmptyMap

Next ==
    \/ SearchTraces(1, PipelineParams)
    \/ FindTracesIds(1, AllOutcomes)
    \/ SearchTracesByIds(1, AllOutcomes)
    \/ GetTrace(1, GetTraceParams)
    \/ GetTraceDone(1, AllOutcomes)
    \/ GetService(1, ServiceParams)
    \/ GetServiceDone(1, MetadataOutcomes)
    \/ GetOperations(1, OperationParams)
    \/ GetOperationsDone(1, MetadataOutcomes)

Spec == Init /\ [][Next]_vars

\* One find-traces request of every shape, against a few answers of the backend,
\* under several configurations.
InitQuery ==
    /\ Start
    /\ cfg \in {Config(24, ceiling, 10000) : ceiling \in {1, 2}}
    /\ sqlIn = NoSQLIn
    /\ ooSpan = EmptyMap

NextQuery ==
    \/ SearchTraces(1, QueryParams)
    \/ FindTracesIds(1, FewOutcomes)
    \/ SearchTracesByIds(1, FewOutcomes)

SpecQuery == InitQuery /\ [][NextQuery]_vars

\* Several requests at once.
NextConc ==
    \E r \in Reqs :
        \/ SearchTraces(r, ConcParams)
        \/ FindTracesIds(r, FewOutcomes)
        \/ SearchTracesByIds(r, FewOutcomes)
        \/ GetTrace(r, ConcTraceParams)
        \/ GetTraceDone(r, FewOutcomes)

SpecConc == Init /\ [][NextConc]_vars

\* buildSQL on its own, over the queries and both kinds of stream argument.
SQLQueries ==
    {[NoQuery EXCEPT !.ServiceName = sv, !.OperationName = opn, !.Tags = tg,
                     !.DurationMin = mn, !.DurationMax = mx, !.NumTraces = n] :
        sv \in {<<>>, <<"checkout">>, <<"checkout", "cart">>},
        opn \in {<<>>, <<"GET">>},
        tg \in {EmptyMap, [k \in {"error"} |-> "true"], [k \in {"error"} |-> "false"],
                [k \in {"k"} |-> "v"], [k \in {"error", "k"} |-> "true"]},
        mn \in {ParseDurationValue(d) : d \in DurationStrings},
        mx \in {ParseDurationValue(d) : d \in DurationStrings},
        n \in {0, defaultQueryLimit}}

InitSQL ==
    /\ Start
    /\ cfg = Config(24, 24, 10000)
    /\ sqlIn \in {[fileds |-> "trace_id, MIN(_timestamp) AS _timestamp", q |-> q, stream |-> st] :
                     q \in SQLQueries, st \in {"", SearchTraceListStream}}
    /\ ooSpan = EmptyMap

NextSQL == BuildSQL

SpecSQL == InitSQL /\ [][NextSQL]_vars

\* transOOSpanToDbModelSpan applied to the record drawn at the start.
TransOOSpanToDbModelSpan ==
    /\ ~dbSpan.done
    /\ dbSpan' = [done |-> TRUE, span |-> transOOSpanToDbModelSpan(ooSpan)]
    /\ UNCHANGED <<cfg, now, op, pc, params, query, calls, hits, traceIds, resp,
                   httpStatus, clientTimeout, clientWrites, sqlIn, sqlOut, ooSpan>>

\* The flat records of the span store: the core columns, and any of the kind,
\* status, events, reference and application columns.
Missing == "<missing>"
Column(c, v) == IF v = Missing THEN EmptyMap ELSE [k \in {c} |-> v]
RECURSIVE Columns(_)
Columns(cols) ==
    IF cols = <<>> THEN EmptyMap ELSE MapMerge(Head(cols), Columns(Tail(cols)))

RefTypeStrings ==
    {"CHILDOF", "childof", "CHILD_OF", "FOLLOWS_FROM", "follows_from", "link"}

FlatRecords ==
    {Columns(<<Column("trace_id", "t1"), Column("span_id", "s1"),
               Column("start_time", "1500"), Column("service_name", "checkout"),
               Column("span_kind", kind), Column("span_status", status),
               Column("events", events),
               Column("reference_parent_span_id", parent),
               Column("reference_parent_trace_id", ptrace),
               Column("reference_ref_type", reftype),
               Column("http.method", method)>>) :
        kind \in {Missing, "2", "9"},
        status \in {Missing, "OK", "ERROR"},
        events \in {Missing} \cup EventStrings,
        parent \in {Missing, "", "p1"},
        ptrace \in {Missing, "t1"},
        reftype \in {Missing} \cup RefTypeStrings,
        method \in {Missing, "GET"}}

InitSpan ==
    /\ Start
    /\ cfg = Config(24, 24, 10000)
    /\ sqlIn = NoSQLIn
    /\ ooSpan \in FlatRecords

NextSpan == TransOOSpanToDbModelSpan

SpecSpan == InitSpan /\ [][NextSpan]_vars

\* Trace assembly: both trace operations against row sets whose rows have a
\* trace id or none, and a span id that converts or one that does not.
AssembleRows ==
    {[trace_id |-> id, span_id |-> sid] :
        id \in TraceIDs \cup {""}, sid \in {"s1", "s2", "zz"}}
    \cup {[span_id |-> "s1"], [trace_id |-> "t1"]}

AssembleOutcomes == Outcomes(UNION {[1..k -> AssembleRows] : k \in 0..(MaxRows + 1)})

NextAssemble ==
    \/ SearchTraces(1, ConcParams)
    \/ FindTracesIds(1, FewOutcomes)
    \/ SearchTracesByIds(1, AssembleOutcomes)
    \/ GetTrace(1, ConcTraceParams)
    \/ GetTraceDone(1, AssembleOutcomes)

SpecAssemble == Init /\ [][NextAssemble]_vars

-----------------------------------------------------------------------------
(* The claims *)

\* A backend answer that succeeded and brought no row.
ZeroRows(o) == ~o.sendErr /\ o.status = StatusOK /\ o.hits = <<>>

FindTracesOf(r) == op[r] = "SearchTraces"

\* C1: in find-traces, when the Phase 1 call succeeds with zero rows, the
\* response is an empty success: data is the empty list, total is 0, the error
\* list is empty and the status is 200.
C1_EmptySuccess ==
    \A r \in Reqs :
        (FindTracesOf(r) /\ Len(hits[r]) >= 1 /\ ZeroRows(hits[r][1]))
        => /\ pc[r] = "done"
           /\ resp[r].data = <<>> /\ ~resp[r].dataNil
           /\ resp[r].total = 0
           /\ resp[r].errors = <<>>
           /\ httpStatus[r] = 200

C1_Witness ==
    \E r \in Reqs :
        /\ FindTracesOf(r) /\ Len(hits[r]) = 1 /\ ZeroRows(hits[r][1])
        /\ params[r].service = <<"checkout">>
        /\ pc[r] = "done"

\* C2: in fetch-by-identifier for the trace id T, when the span fetch succeeds
\* with zero rows, the error list is exactly one error, with code 404 and
\* traceID T, and there is no trace data.
C2_GetTraceNotFound ==
    \A r \in Reqs :
        (op[r] = "GetTrace" /\ Len(hits[r]) >= 1 /\ ZeroRows(hits[r][1]))
        => /\ pc[r] = "done"
           /\ Len(resp[r].errors) = 1
           /\ resp[r].errors[1].code = 404
           /\ resp[r].errors[1].traceID = params[r].id
           /\ resp[r].data = <<>>
           /\ httpStatus[r] = 404

C2_Witness ==
    \E r \in Reqs :
        /\ op[r] = "GetTrace" /\ Len(hits[r]) = 1 /\ ZeroRows(hits[r][1])
        /\ params[r].id = "t1"
        /\ pc[r] = "done"

\* C3: in find-traces, when Phase 1 returned at least one trace identifier and
\* the Phase 2 call returns zero rows, the response's error list carries a
\* 404-coded error.
C3_SpanFetchNotFoundIs404 ==
    \A r \in Reqs :
        (/\ FindTracesOf(r) /\ Len(hits[r]) = 2
         /\ Len(traceIds[r]) >= 1
         /\ ZeroRows(hits[r][2]))
        => /\ Len(resp[r].errors) >= 1
           /\ resp[r].errors[1].code = 404

\* C4: within a find-traces request the Phase 2 call is issued only after the
\* Phase 1 call has returned successfully with at least one trace identifier,
\* and the two calls are never in flight together.
C4_PhaseOrder ==
    \A r \in Reqs :
        FindTracesOf(r) =>
            /\ \A i \in 1..Len(calls[r]) :
                calls[r][i].phase = "spans" =>
                    /\ i > 1
                    /\ calls[r][1].phase = "ids" /\ ~calls[r][1].inflight
                    /\ Len(hits[r]) >= 1
                    /\ ~hits[r][1].sendErr /\ hits[r][1].status = StatusOK
                    /\ \E k \in 1..Len(hits[r][1].hits) : HasCol(hits[r][1].hits[k], "trace_id")
                    /\ Len(traceIds[r]) >= 1
                    /\ Len(calls[r][i].req.body.Sql.where[1].args) >= 1
            /\ \A i, j \in 1..Len(calls[r]) :
                (calls[r][i].inflight /\ calls[r][j].inflight) => i = j
            /\ (Len(hits[r]) >= 1 /\ (hits[r][1].sendErr \/ hits[r][1].status # StatusOK
                                      \/ traceIds[r] = <<>>))
               => Len(calls[r]) = 1

C4_Witness ==
    \E r \in Reqs :
        /\ FindTracesOf(r) /\ pc[r] = "searchTracesByIds"
        /\ Len(calls[r]) = 2 /\ calls[r][2].phase = "spans" /\ calls[r][2].inflight

\* C5: a find-traces request issues at most one Phase 1 call and at most one
\* Phase 2 call, however many identifiers Phase 1 returned and whatever the
\* outcome of either call; the one Phase 2 call names every identifier.
C5_OneCallPerPhase ==
    \A r \in Reqs :
        FindTracesOf(r) =>
            /\ Cardinality({i \in 1..Len(calls[r]) : calls[r][i].phase = "ids"}) <= 1
            /\ Cardinality({i \in 1..Len(calls[r]) : calls[r][i].phase = "spans"}) <= 1
            /\ \A i \in 1..Len(calls[r]) :
                calls[r][i].phase = "spans" =>
                    calls[r][i].req.body.Sql.where[1].args = traceIds[r]

C5_Witness ==
    \E r \in Reqs :
        /\ FindTracesOf(r) /\ pc[r] = "done"
        /\ Len(traceIds[r]) = 2 /\ traceIds[r][1] # traceIds[r][2]
        /\ Len(calls[r]) = 2 /\ Len(hits[r]) = 2 /\ hits[r][2].sendErr

\* C6: requests running together share no mutable state: no request writes to
\* the shared backend client while another request's call goes through it.
C6_NoSharedWrite ==
    \A w \in clientWrites : w.with = {}

\* A request turned away by the parser: no backend call, one client-error
\* coded error, empty data.
Rejected(r) ==
    /\ pc[r] = "done"
    /\ calls[r] = <<>>
    /\ Len(resp[r].errors) = 1
    /\ resp[r].errors[1].code \in 400..499
    /\ resp[r].data = <<>>
    /\ httpStatus[r] = resp[r].errors[1].code

RejectedFor(r, msg) == Rejected(r) /\ resp[r].errors[1].msg = msg

\* Both duration parameters are supplied, as durations.
DurationsSupplied(p) ==
    p.minDuration \in DurationStrings /\ p.maxDuration \in DurationStrings

MaxBelowMin(p) ==
    ParseDurationValue(p.maxDuration) < ParseDurationValue(p.minDuration)

\* C7, as claimed: every find-traces request in which minDuration and
\* maxDuration are both supplied with maxDuration less than minDuration is
\* rejected before any backend call, with a client-error coded error and empty
\* data.
C7_SuppliedMaxBelowMinRejected ==
    \A r \in Reqs :
        (FindTracesOf(r) /\ DurationsSupplied(params[r]) /\ MaxBelowMin(params[r]))
        => Rejected(r)

\* C7, amended: the same, for requests in which both durations are supplied
\* and neither is zero.
C7_NonZeroMaxBelowMinRejected ==
    \A r \in Reqs :
        (/\ FindTracesOf(r) /\ DurationsSupplied(params[r]) /\ MaxBelowMin(params[r])
         /\ ParseDurationValue(params[r].minDuration) # 0
         /\ ParseDurationValue(params[r].maxDuration) # 0)
        => Rejected(r)

C7_Witness ==
    \E r \in Reqs :
        /\ FindTracesOf(r)
        /\ params[r].minDuration = "2us" /\ params[r].maxDuration = "1us"
        /\ RejectedFor(r, errMaxDurationGreaterThanMin)

\* The time window a find-traces request asks for.
ReqStart(r) == parseTime(params[r].start, TRUE, now)
ReqEnd(r) == parseTime(params[r].end, FALSE, now)

\* C8: every backend call of a find-traces request belongs to a query that
\* names at least one service and whose window has its start strictly before
\* its end; a request with no service, or whose window has not, is rejected
\* and reaches no backend call.
C8_CallsCarryValidQuery ==
    \A r \in Reqs :
        FindTracesOf(r) =>
            /\ \A i \in 1..Len(calls[r]) :
                /\ Len(params[r].service) >= 1
                /\ query[r].ServiceName = params[r].service
                /\ query[r].traceIDs = <<>>
                /\ calls[r][i].phase = "ids" =>
                      \E k \in 1..Len(calls[r][i].req.body.Sql.where) :
                          /\ calls[r][i].req.body.Sql.where[k].col = "service_name"
                          /\ calls[r][i].req.body.Sql.where[k].args = params[r].service
                /\ calls[r][i].req.body.StartTime < calls[r][i].req.body.EndTime
                /\ ~ReqStart(r).err /\ ~ReqEnd(r).err
                /\ ReqStart(r).t < ReqEnd(r).t
            /\ (\/ Len(params[r].service) = 0
                \/ ReqStart(r).err \/ ReqEnd(r).err
                \/ ReqStart(r).t >= ReqEnd(r).t)
               => Rejected(r)

C8_Witness ==
    \E r \in Reqs :
        /\ FindTracesOf(r)
        /\ Len(calls[r]) = 2 /\ calls[r][2].inflight
        /\ params[r].start = Num(1) /\ params[r].end = Num(2)
        /\ params[r].service = <<"checkout", "cart">>

\* C9: the validator rejects a find-traces query for its window width exactly
\* when the width exceeds the configured ceiling,
\* default_queryui_max_search_range_time hours.
C9_CeilingIsConfigured ==
    \A r \in Reqs :
        (FindTracesOf(r) /\ (calls[r] # <<>> \/ RejectedFor(r, errTimeRange)))
        => (RejectedFor(r, errTimeRange)
            <=> ReqEnd(r).t - ReqStart(r).t > cfg.DefaultQueryUIMaxSearchRange * Hour)

\* C10: buildSQL reads the full span store, selecting trace_id with
\* MIN(start_time), exactly when the stream argument is empty or the query has
\* a tag, an operation name or a duration bound; otherwise it reads the stream
\* it was given with the caller's projection; and the selector it returns
\* names the source the SQL reads FROM.
HasDurationBound(sql) ==
    \E k \in 1..Len(sql.where) : sql.where[k].col = "duration"

C10_SourceSelection ==
    sqlOut.done =>
        LET sql == sqlOut.out.sql
            full == \/ sqlIn.stream = ""
                    \/ DOMAIN sqlIn.q.Tags # {}
                    \/ sqlIn.q.OperationName # <<>>
                    \/ HasDurationBound(sql)
        IN  /\ full => /\ sql.from = SearchTraceDefaultStream
                       /\ sql.select = "trace_id, MIN(start_time) AS _timestamp"
                       /\ sqlOut.out.stream_api = TraceAPI
            /\ ~full => /\ sql.from = sqlIn.stream
                        /\ sql.select = sqlIn.fileds
                        /\ sqlOut.out.stream_api = MetadataAPI
            /\ sqlOut.out.stream_api = TraceAPI <=> sql.from = SearchTraceDefaultStream
            /\ sqlOut.out.stream_api = MetadataAPI <=> sql.from = SearchTraceListStream

C10_Witness ==
    /\ sqlOut.done
    /\ sqlIn.stream = SearchTraceListStream
    /\ DOMAIN sqlIn.q.Tags = {} /\ sqlIn.q.OperationName = <<>>
    /\ sqlIn.q.DurationMin = 0 /\ sqlIn.q.DurationMax > 0
    /\ sqlOut.out.stream_api = TraceAPI
    /\ sqlOut.out.sql.from = SearchTraceDefaultStream

\* The tag equalities of the WHERE clause of a built SQL.
WhereTags(sql) == UNION {sql.where[k].tags : k \in 1..Len(sql.where)}

\* C11: whenever the tags of the query hold the reserved key "error", with
\* any value, the WHERE clause built holds the equality span_status='ERROR'
\* and holds no equality on a column named error.
C11_ErrorTagIsStatusEquality ==
    (sqlOut.done /\ "error" \in DOMAIN sqlIn.q.Tags) =>
        /\ TagEq("span_status", "ERROR") \in WhereTags(sqlOut.out.sql)
        /\ \A e \in WhereTags(sqlOut.out.sql) : e.k # "error"

\* The trace-id values of the rows that have the column, each once, in the
\* order of their first occurrence.
RECURSIVE FirstOccurrences(_, _)
FirstOccurrences(rows, seen) ==
    IF rows = <<>> THEN <<>>
    ELSE LET row == Head(rows)
             id == ColString(row, "trace_id")
         IN  IF HasCol(row, "trace_id") /\ id \notin seen
             THEN <<id>> \o FirstOccurrences(Tail(rows), seen \cup {id})
             ELSE FirstOccurrences(Tail(rows), seen)

\* Phase 1 of r returned rows without an error.
Phase1Rows(r) ==
    /\ FindTracesOf(r) /\ Len(hits[r]) >= 1
    /\ ~hits[r][1].sendErr /\ hits[r][1].status = StatusOK
    /\ hits[r][1].hits # <<>>

\* C12: for every non-empty row sequence Phase 1 returns, the identifier list
\* handed to Phase 2 holds each identifier of the rows exactly once, in the
\* order of its first occurrence in the rows.
C12_IdsDeduplicated ==
    \A r \in Reqs :
        Phase1Rows(r) =>
            /\ traceIds[r] = FirstOccurrences(hits[r][1].hits, {})
            /\ \A i \in 1..Len(calls[r]) :
                calls[r][i].phase = "spans" =>
                    calls[r][i].req.body.Sql.where[1].args
                        = FirstOccurrences(hits[r][1].hits, {})

\* The backend call of one phase of r, if it was issued.
PhaseCalls(r, phase) == {i \in 1..Len(calls[r]) : calls[r][i].phase = phase}
\* The width of the window a call sends.
Width(call) == call.req.body.EndTime - call.req.body.StartTime

\* C13: the window of the Phase 2 span fetch is a second window set by the
\* configuration, not by the request: under one configuration every Phase 2
\* call has a window of the same width, whatever start and end the requests
\* name, and it is never narrower than the Phase 1 window of its request.
C13_SpanWindowIsConfigured ==
    /\ \A r1, r2 \in Reqs :
        \A i \in PhaseCalls(r1, "spans"), j \in PhaseCalls(r2, "spans") :
            Width(calls[r1][i]) = Width(calls[r2][j])
    /\ \A r \in Reqs :
        \A i \in PhaseCalls(r, "spans"), j \in PhaseCalls(r, "ids") :
            /\ calls[r][i].req.body.StartTime <= calls[r][j].req.body.StartTime
            /\ calls[r][i].req.body.EndTime >= calls[r][j].req.body.EndTime

\* C14: find-traces forwards the caller's search mode unchanged to both
\* phases: the search type and the skip-cache flag of the Phase 2 call equal
\* those of the Phase 1 call of the same request.
C14_ModeForwardedToBothPhases ==
    \A r \in Reqs :
        FindTracesOf(r) =>
            \A i \in PhaseCalls(r, "ids"), j \in PhaseCalls(r, "spans") :
                /\ calls[r][j].req.body.SearchType = calls[r][i].req.body.SearchType
                /\ calls[r][j].req.body.SkipWal = calls[r][i].req.body.SkipWal

\* The span fetch of r returned rows without an error.
SpanRows(r, k) ==
    /\ pc[r] = "done" /\ Len(hits[r]) = k
    /\ ~hits[r][k].sendErr /\ hits[r][k].status = StatusOK
    /\ hits[r][k].hits # <<>>

\* The (trace id, span id) pairs of a sequence of spans, and of the rows of
\* the trace id that have a well-formed span id.
SpanKeys(spans) == [i \in 1..Len(spans) |-> <<spans[i].TraceID, spans[i].SpanID>>]
RowKeys(rows, id) ==
    LET good == SelectSeq(rows, LAMBDA row : /\ ColString(row, "trace_id") = id
                                             /\ ColString(row, "span_id") \notin MalformedSpanIDs)
    IN  [i \in 1..Len(good) |-> <<id, ColString(good[i], "span_id")>>]
NonEmptyIds(rows) == {ColString(rows[i], "trace_id") : i \in 1..Len(rows)} \ {""}

\* C15: the traces find-traces assembles from the Phase 2 rows partition the
\* rows by trace id: there is one trace for each non-empty trace id of the
\* rows, it holds the rows of that trace id in their original order and no
\* other, so every span has the trace id of its trace, no span is in two
\* traces, and the rows with an empty or missing trace id are in none.
C15_GroupingIsPartition ==
    \A r \in Reqs :
        (FindTracesOf(r) /\ SpanRows(r, 2) /\ resp[r].errors = <<>>) =>
            LET rows == hits[r][2].hits
                data == resp[r].data
            IN  /\ Len(data) = Cardinality(NonEmptyIds(rows))
                /\ \A id \in NonEmptyIds(rows) :
                    Cardinality({i \in 1..Len(data) :
                                    SpanKeys(data[i].spans) = RowKeys(rows, id)}) >= 1
                /\ \A i \in 1..Len(data) :
                    /\ \A k \in 1..Len(data[i].spans) :
                        /\ data[i].spans[k].TraceID = data[i].traceID
                        /\ data[i].spans[k].TraceID # ""
                    /\ \E id \in NonEmptyIds(rows) :
                        SpanKeys(data[i].spans) = RowKeys(rows, id)
                /\ \A i, j \in 1..Len(data) :
                    (i # j /\ data[i].spans # <<>> /\ data[j].spans # <<>>)
                    => data[i].traceID # data[j].traceID

C15_Witness ==
    \E r \in Reqs :
        /\ FindTracesOf(r) /\ SpanRows(r, 2) /\ resp[r].errors = <<>>
        /\ hits[r][2].hits = <<[trace_id |-> "t1", span_id |-> "s1"],
                               [trace_id |-> "t2", span_id |-> "s1"],
                               [trace_id |-> "t1", span_id |-> "s2"]>>
        /\ Len(resp[r].data) = 2

\* The columns that feed a core field, a translated tag, the logs or the
\* reference of a span.
FixedKeyColumns ==
    {OOSpanFixedKey.TraceID, OOSpanFixedKey.SpanID, OOSpanFixedKey.StartTime,
     OOSpanFixedKey.EndTime, OOSpanFixedKey.Timestamp, OOSpanFixedKey.Duration,
     OOSpanFixedKey.OperationName, OOSpanFixedKey.ServiceName, OOSpanFixedKey.Flags,
     OOSpanFixedKey.ReferenceParentSpanId, OOSpanFixedKey.ReferenceParentTraceId,
     OOSpanFixedKey.ReferenceRefType, OOSpanFixedKey.SpanStatus,
     OOSpanFixedKey.SpanKind, OOSpanFixedKey.Events}

\* A tag list holds the column k as a raw tag.
RawTag(kvs, k) == \E kv \in kvs : kv.Key = k

\* C16: assembling a flat record routes every column to one destination: a
\* fixed-key column is in neither tag list as a raw tag, and every other column
\* is a raw tag of exactly one list, the process tags if its name matches the
\* process-tag rule and the span tags otherwise.
C16_ColumnsRoutedOnce ==
    dbSpan.done =>
        LET tags == dbSpan.span.Tags
            ptags == dbSpan.span.Process.Tags
        IN  /\ \A k \in (DOMAIN ooSpan) \cap FixedKeyColumns :
                ~RawTag(tags, k) /\ ~RawTag(ptags, k)
            /\ \A k \in (DOMAIN ooSpan) \ FixedKeyColumns :
                IF DbModelProcessTagsRulesReg(k)
                THEN RawTag(ptags, k) /\ ~RawTag(tags, k)
                ELSE RawTag(tags, k) /\ ~RawTag(ptags, k)

\* The record's events column is the array of the one event
\* {_timestamp: 1000000000, msg: "ok"}.
OneOkEvent ==
    /\ dbSpan.done
    /\ HasCol(ooSpan, OOSpanFixedKey.Events)
    /\ ooSpan[OOSpanFixedKey.Events] = "[{\"_timestamp\":1000000000,\"msg\":\"ok\"}]"

\* C17, as stated: such a record has exactly one log, whose timestamp is 1000
\* and whose fields are the one field msg = "ok".
C17_OneLogAt1000 ==
    OneOkEvent =>
        /\ Len(dbSpan.span.Logs) = 1
        /\ dbSpan.span.Logs[1].Timestamp = 1000
        /\ dbSpan.span.Logs[1].Fields = {KeyValue("msg", "string", "ok")}

\* C17, amended: such a record has exactly one log, whose timestamp is
\* 1000000, the microseconds of 1000000000 nanoseconds, and whose fields are
\* the one field msg = "ok", without the timestamp field.
C17_OneLogAt1000000 ==
    OneOkEvent =>
        /\ Len(dbSpan.span.Logs) = 1
        /\ dbSpan.span.Logs[1].Timestamp = 1000000
        /\ dbSpan.span.Logs[1].Fields = {KeyValue("msg", "string", "ok")}

C17_Witness ==
    /\ OneOkEvent
    /\ Len(dbSpan.span.Logs) = 1
    /\ dbSpan.span.Logs[1].Timestamp = 1000000

\* The one reference of a record, pointing at its parent columns.
ParentReference(refType) ==
    <<Reference(refType,
                ColString(ooSpan, OOSpanFixedKey.ReferenceParentTraceId),
                ColString(ooSpan, OOSpanFixedKey.ReferenceParentSpanId))>>

NoParent == ColString(ooSpan, OOSpanFixedKey.ReferenceParentSpanId) = ""

\* C18, as stated: a record without a parent span id, or with an empty one,
\* has no references; any other has exactly one, to its parent columns, of
\* type FOLLOWS_FROM only when the reference-type column is FOLLOWS_FROM and of
\* type CHILD_OF in every other case.
C18_FollowsFromOnlyWhenExact ==
    dbSpan.done =>
        dbSpan.span.References =
            IF NoParent THEN <<>>
            ELSE IF ColString(ooSpan, OOSpanFixedKey.ReferenceRefType) = "FOLLOWS_FROM"
            THEN ParentReference("FOLLOWS_FROM")
            ELSE ParentReference("CHILD_OF")

\* The spellings of FOLLOWS_FROM in upper and lower case.
FollowsFromSpellings == {"FOLLOWS_FROM", "follows_from"}

\* C18, amended: a record without a parent span id, or with an empty one, has
\* no references; any other has exactly one, to its parent columns, of type
\* FOLLOWS_FROM when the reference-type column spells FOLLOWS_FROM in any
\* letter case and of type CHILD_OF in every other case: CHILDOF, an absent
\* type, any other value.
C18_OneParentReference ==
    dbSpan.done =>
        dbSpan.span.References =
            IF NoParent THEN <<>>
            ELSE IF ColString(ooSpan, OOSpanFixedKey.ReferenceRefType) \in FollowsFromSpellings
            THEN ParentReference("FOLLOWS_FROM")
            ELSE ParentReference("CHILD_OF")

C18_Witness ==
    /\ dbSpan.done
    /\ ColString(ooSpan, OOSpanFixedKey.ReferenceParentSpanId) = "p1"
    /\ ColString(ooSpan, OOSpanFixedKey.ReferenceRefType) = "CHILDOF"
    /\ dbSpan.span.References = <<Reference("CHILD_OF", "t1", "p1")>>

\* The (trace id, span id) pairs of the rows with a well-formed span id, in
\* the order of the rows.
GoodKeys(rows) ==
    LET good == SelectSeq(rows, LAMBDA row : ColString(row, "span_id") \notin MalformedSpanIDs)
    IN  [i \in 1..Len(good) |-> <<ColString(good[i], "trace_id"), ColString(good[i], "span_id")>>]

\* The errors of a response that come from a failed span conversion (code 400).
ConversionErrors(r) == {i \in 1..Len(resp[r].errors) : resp[r].errors[i].code = 400}

\* C19: a span whose conversion fails never fails its trace: the trace of a
\* fetch-by-identifier holds the spans of every other row, in the order of the
\* rows, and so does every trace of find-traces; no response carries an error
\* for a bad span.
C19_BadSpanSkipped ==
    \A r \in Reqs :
        /\ (op[r] = "GetTrace" /\ SpanRows(r, 1)) =>
                /\ Len(resp[r].data) = 1
                /\ SpanKeys(resp[r].data[1].spans) = GoodKeys(hits[r][1].hits)
                /\ ConversionErrors(r) = {}
                /\ \A i \in 1..Len(resp[r].errors) : resp[r].errors[i].msg = "adjust"
        /\ (FindTracesOf(r) /\ SpanRows(r, 2)) =>
                /\ ConversionErrors(r) = {}
                /\ \A i \in 1..Len(resp[r].errors) : resp[r].errors[i].msg = "adjust"
                /\ \A i \in 1..Len(resp[r].data) :
                    \E id \in NonEmptyIds(hits[r][2].hits) :
                        SpanKeys(resp[r].data[i].spans)
                            = GoodKeys(RowsOf(hits[r][2].hits, id))

C19_Witness ==
    \E r \in Reqs :
        /\ op[r] = "GetTrace" /\ SpanRows(r, 1)
        /\ hits[r][1].hits = <<[trace_id |-> "t1", span_id |-> "s1"],
                               [trace_id |-> "t1", span_id |-> "zz"],
                               [trace_id |-> "t1", span_id |-> "s2"]>>
        /\ SpanKeys(resp[r].data[1].spans) = <<(<<"t1", "s1">>), (<<"t1", "s2">>)>>
        /\ resp[r].errors = <<>>

\* The errors of a response that report a failed adjuster.
AdjusterErrors(r) == {i \in 1..Len(resp[r].errors) : resp[r].errors[i].msg = "adjust"}

\* C20: an adjuster failure aborts neither trace operation: for every error
\* reporting one, the trace it names is in the response data, and a
\* find-traces response still holds every trace of the Phase 2 rows.
C20_AdjusterFailureKeepsData ==
    \A r \in Reqs :
        (pc[r] = "done" /\ AdjusterErrors(r) # {}) =>
            /\ \A i \in AdjusterErrors(r) :
                \E k \in 1..Len(resp[r].data) :
                    resp[r].data[k].traceID = resp[r].errors[i].traceID
            /\ FindTracesOf(r) =>
                Len(resp[r].data) = Cardinality(NonEmptyIds(hits[r][2].hits))

\* The response of r carries both results and errors.
DataWithErrors(r) == resp[r].data # <<>> /\ resp[r].errors # <<>>

\* C21, as stated: in every response of the four operations the results and
\* the errors exclude each other: errors imply no results, results imply no
\* errors.
C21_DataExcludesErrors ==
    \A r \in Reqs : ~DataWithErrors(r)

\* C21, amended: results and errors exclude each other in every response of
\* the four operations but one: a fetch-by-identifier whose adjusters failed
\* returns its trace together with the error of the adjusters, and that is the
\* only error such a response has.
C21_DataExcludesErrorsButAdjuster ==
    \A r \in Reqs :
        DataWithErrors(r) =>
            /\ op[r] = "GetTrace"
            /\ Len(resp[r].data) = 1
            /\ Len(resp[r].errors) = 1
            /\ AdjusterErrors(r) = {1}

C21_Witness ==
    \E r \in Reqs :
        /\ op[r] = "GetTrace" /\ pc[r] = "done"
        /\ DataWithErrors(r)
        /\ resp[r].errors[1].traceID = "t1"

\* A backend call of r failed: the client returned an error, or the backend a
\* status other than 200.
BackendFailed(r) ==
    \E k \in 1..Len(hits[r]) : hits[r][k].sendErr \/ hits[r][k].status # StatusOK

\* C22: whenever a backend call fails or the backend answers with a status
\* other than success, in any operation and either phase, the request is
\* aborted and the first error of the response has a server-error code (5xx),
\* whatever status the backend returned.
C22_BackendFailureIs5xx ==
    \A r \in Reqs :
        BackendFailed(r) =>
            /\ pc[r] = "done"
            /\ Len(calls[r]) = Len(hits[r])
            /\ Len(resp[r].errors) >= 1
            /\ resp[r].errors[1].code >= 500
            /\ resp[r].errors[1].code <= 599

\* The first place of the identifier id in the list ids.
Position(ids, id) == CHOOSE i \in 1..Len(ids) : ids[i] = id /\ \A j \in 1..(i - 1) : ids[j] # id

\* C23: the traces of a find-traces response come in the order of the Phase 1
\* identifier list, so the same Phase 1 rows and the same Phase 2 rows always
\* give the same list of traces: of two traces in the response, the one whose
\* identifier is earlier in the Phase 1 list comes first.
C23_TracesInPhase1Order ==
    \A r \in Reqs :
        (/\ FindTracesOf(r) /\ SpanRows(r, 2)
         /\ NonEmptyIds(hits[r][2].hits) \subseteq {traceIds[r][i] : i \in 1..Len(traceIds[r])})
        => \A i, j \in 1..Len(resp[r].data) :
              i < j => Position(traceIds[r], resp[r].data[i].traceID)
                           <= Position(traceIds[r], resp[r].data[j].traceID)

\* C24: every error in the error list of a response carries a code that is an
\* HTTP error status (at least 400, at most 599), and the status of a finished
\* request is 200 or such an error status, never 0.
C24_ErrorCodesAreHttpErrors ==
    \A r \in Reqs :
        /\ \A i \in 1..Len(resp[r].errors) :
              resp[r].errors[i].code >= 400 /\ resp[r].errors[i].code <= 599
        /\ pc[r] = "done" =>
              \/ httpStatus[r] = StatusOK
              \/ httpStatus[r] >= 400 /\ httpStatus[r] <= 599

\* C25: every backend search of GetTrace has a window whose start is strictly
\* before its end, whichever of start_time and end_time the request supplies:
\* with both omitted the window is [now - configured detail range, now], and
\* otherwise it is the window the request gives.
C25_GetTraceWindowOrdered ==
    \A r \in Reqs :
        \A i \in PhaseCalls(r, "trace") :
            LET body == calls[r][i].req.body
            IN  /\ body.StartTime < body.EndTime
                /\ IF IsZero(query[r].StartTime) /\ IsZero(query[r].EndTime)
                   THEN /\ body.StartTime = now - Hour * cfg.DefaultTraceDetailSearchRange
                        /\ body.EndTime = now
                   ELSE /\ body.StartTime = query[r].StartTime
                        /\ body.EndTime = query[r].EndTime

====
